---- MODULE Spec2Model ----
(***************************************************************************)
(* A model of the JSON comparison engine of app.py: ComparisonConfig,      *)
(* compare_values, compare_arrays, compare_json, calculate_accuracy and    *)
(* the /api/compare request handler.                                       *)
(*                                                                         *)
(* Representation.                                                         *)
(*   - A JSON value is a record [t, n, s, a, o]: t is the Python type      *)
(*     ("null", "bool", "num", "str", "arr", "obj"), n the numeric value   *)
(*     (a bool carries 1 or 0: Python's bool is a subclass of int), s the  *)
(*     characters of a string, a the items of a list and o the items of a  *)
(*     dict as a sequence of <<key, value>> pairs in insertion order.      *)
(*   - A key or a path is a Python str.  It is represented by the sequence *)
(*     of its dot-free segments: "a.b" is <<"a", "b">> and "" is <<"">>.   *)
(*     This is a bijection between strings and non-empty sequences of      *)
(*     dot-free strings, under which f"{path}.{key}" is concatenation.     *)
(*   - A result map (a Python dict keyed by path) is a function whose      *)
(*     domain is a set of paths.                                           *)
(*   - Percentages are kept in hundredths (6667 is 66.67).                 *)
(***************************************************************************)
EXTENDS Integers, Sequences, FiniteSets, TLC

VARIABLES reference, target, config, pc, result, swapped, accuracy,
          request, cursor, results, status

vars == <<reference, target, config, pc, result, swapped, accuracy,
          request, cursor, results, status>>

----------------------------------------------------------------------------
(* Bounds of the explored input space.                                     *)

\* entries (keys, nested ones included) of one generated document
MaxDocNodes == 3
\* entries of the reference and the target document together
MaxPairNodes == 5
\* entries of the two documents together where ignore_keys is explored
MaxIgnoreNodes == 4
\* length of a generated array
MaxLen == 3
\* largest numeric_tolerance explored
MaxTolerance == 1
\* size of each classification map handed to calculate_accuracy
MaxMapSize == 3
\* target files of one upload request
MaxTargets == 3

----------------------------------------------------------------------------
(* JSON values.                                                            *)

NullV == [t |-> "null", n |-> 0, s |-> <<>>, a |-> <<>>, o |-> <<>>]
BoolV(b) == [t |-> "bool", n |-> IF b THEN 1 ELSE 0, s |-> <<>>, a |-> <<>>, o |-> <<>>]
NumV(i) == [t |-> "num", n |-> i, s |-> <<>>, a |-> <<>>, o |-> <<>>]
StrV(chars) == [t |-> "str", n |-> 0, s |-> chars, a |-> <<>>, o |-> <<>>]
ArrV(items) == [t |-> "arr", n |-> 0, s |-> <<>>, a |-> items, o |-> <<>>]
ObjV(items) == [t |-> "obj", n |-> 0, s |-> <<>>, a |-> <<>>, o |-> items]

\* isinstance(v, (int, float)): true of a bool as well
IsNumber(v) == v.t \in {"num", "bool"}
\* isinstance(v, str), isinstance(v, list), isinstance(v, dict)
IsStr(v) == v.t = "str"
IsList(v) == v.t = "arr"
IsDict(v) == v.t = "obj"

Abs(i) == IF i < 0 THEN -i ELSE i

\* str.lower() on the characters the model uses
LowerChar(c) == IF c = "X" THEN "x" ELSE IF c = "Y" THEN "y" ELSE c
Lower(chars) == [i \in DOMAIN chars |-> LowerChar(chars[i])]

\* dict operations: key in d, d[key], the keys in iteration order
KeysOf(d) == {d.o[i][1] : i \in DOMAIN d.o}
HasKey(d, key) == \E i \in DOMAIN d.o : d.o[i][1] = key
Get(d, key) == d.o[CHOOSE i \in DOMAIN d.o : d.o[i][1] = key][2]
\* d.get(key): None when the key is absent
GetOrNone(d, key) == IF HasKey(d, key) THEN Get(d, key) ELSE NullV

\* Python's == on two parsed JSON values
RECURSIVE PyEq(_, _)
PyEq(x, y) ==
    IF IsNumber(x) /\ IsNumber(y) THEN x.n = y.n
    ELSE IF IsStr(x) /\ IsStr(y) THEN x.s = y.s
    ELSE IF x.t = "null" /\ y.t = "null" THEN TRUE
    ELSE IF IsList(x) /\ IsList(y)
         THEN /\ Len(x.a) = Len(y.a)
              /\ \A i \in DOMAIN x.a : PyEq(x.a[i], y.a[i])
    ELSE IF IsDict(x) /\ IsDict(y)
         THEN /\ KeysOf(x) = KeysOf(y)
              /\ \A k \in KeysOf(x) : PyEq(Get(x, k), Get(y, k))
    ELSE FALSE

----------------------------------------------------------------------------
(* Paths and result maps.                                                  *)

\* the empty string, the path of the root call
EmptyPath == <<"">>
\* f"{path}.{key}" if path else key
JoinPath(path, key) == IF path = EmptyPath THEN key ELSE path \o key

EmptyMap == [p \in {} |-> NullV]
\* m[p] = v
Put(m, p, v) == [q \in DOMAIN m \cup {p} |-> IF q = p THEN v ELSE m[q]]
\* m.update(sub)
Update(m, sub) ==
    [q \in DOMAIN m \cup DOMAIN sub |-> IF q \in DOMAIN sub THEN sub[q] ELSE m[q]]

EmptyResult ==
    [missing |-> EmptyMap, common |-> EmptyMap,
     differences |-> EmptyMap, additional |-> EmptyMap]

----------------------------------------------------------------------------
(* ComparisonConfig.  A schema is [kind, required]: kind "none" is None,   *)
(* "empty" the schema {} and "required" the schema {"required": [...]}.    *)
(* A custom rule is "ignore", a callable ("pred_true", "pred_false") or    *)
(* any other JSON value ("other").                                         *)

NoSchema == [kind |-> "none", required |-> {}]
EmptySchema == [kind |-> "empty", required |-> {}]
RequiredSchema(keys) == [kind |-> "required", required |-> keys]

ComparisonConfig(ignore_order, case_insensitive, numeric_tolerance, ignore_keys, custom_rules, schema) ==
    [ignore_order |-> ignore_order, case_insensitive |-> case_insensitive,
     numeric_tolerance |-> numeric_tolerance, ignore_keys |-> ignore_keys,
     custom_rules |-> custom_rules, schema |-> schema]

NoRules == [p \in {} |-> "ignore"]
DefaultConfig == ComparisonConfig(FALSE, FALSE, 0, {}, NoRules, NoSchema)

\* bool(config.schema): None and the empty dict are falsy
SchemaTruthy(schema) == schema.kind = "required"

\* jsonschema.validate(instance, schema): the keys the instance lacks
ValidationFailures(instance, schema) ==
    IF IsDict(instance) THEN schema.required \ KeysOf(instance) ELSE {}
Validates(instance, schema) == ValidationFailures(instance, schema) = {}

\* str(e) of the ValidationError: it names the failing instance and a key
ValidationMessage(which, instance, schema) ==
    StrV(<<"ValidationError", which>>)

callable(rule) == rule \in {"pred_true", "pred_false"}
\* rule(reference_value, target_value) for the two callables of the model
ApplyRule(rule, ref_val, tgt_val) == rule = "pred_true"

----------------------------------------------------------------------------
(* compare_values and compare_arrays.                                      *)

compare_values(val1, val2, cfg) ==
    IF IsNumber(val1) /\ IsNumber(val2)
    THEN Abs(val1.n - val2.n) <= cfg.numeric_tolerance
    ELSE IF cfg.case_insensitive /\ IsStr(val1) /\ IsStr(val2)
    THEN Lower(val1.s) = Lower(val2.s)
    ELSE PyEq(val1, val2)

\* arr2_copy.pop(i)
Pop(seq, i) == SubSeq(seq, 1, i - 1) \o SubSeq(seq, i + 1, Len(seq))

\* the loop "for item1 in arr1" from item number i on, over the working copy
RECURSIVE MatchFrom(_, _, _, _)
MatchFrom(arr1, i, arr2_copy, cfg) ==
    IF i > Len(arr1) THEN TRUE
    ELSE LET hits == {j \in DOMAIN arr2_copy : compare_values(arr1[i], arr2_copy[j], cfg)}
         IN  IF hits = {} THEN FALSE
             ELSE LET first == CHOOSE j \in hits : \A h \in hits : j <= h
                  IN  MatchFrom(arr1, i + 1, Pop(arr2_copy, first), cfg)

compare_arrays_ordered(arr1, arr2, cfg) ==
    /\ Len(arr1) = Len(arr2)
    /\ \A i \in DOMAIN arr1 : compare_values(arr1[i], arr2[i], cfg)

compare_arrays(arr1, arr2, cfg) ==
    IF Len(arr1) # Len(arr2) THEN FALSE
    ELSE IF ~cfg.ignore_order
    THEN \A i \in DOMAIN arr1 : compare_values(arr1[i], arr2[i], cfg)
    ELSE MatchFrom(arr1, 1, arr2, cfg)

----------------------------------------------------------------------------
(* compare_json.                                                           *)

\* the result of the schema gate when validation raises
SchemaErrorResult(message) ==
    [missing |-> EmptyMap, common |-> EmptyMap, differences |-> EmptyMap,
     additional |-> Put(EmptyMap, <<"schema_error">>, message)]

\* validate(reference); validate(target) raises on the first that fails
SchemaGateFails(ref, tgt, cfg, path) ==
    /\ SchemaTruthy(cfg.schema)
    /\ path = EmptyPath
    /\ ~(Validates(ref, cfg.schema) /\ Validates(tgt, cfg.schema))

SchemaGateMessage(ref, tgt, cfg) ==
    IF ~Validates(ref, cfg.schema)
    THEN ValidationMessage("reference", ref, cfg.schema)
    ELSE ValidationMessage("target", tgt, cfg.schema)

\* the loop "for key in target" without the test of ignore_keys
RECURSIVE AdditionalPassKeepsIgnored(_, _, _, _, _, _)
AdditionalPassKeepsIgnored(ref, tgt, cfg, path, i, additional) ==
    IF i > Len(tgt.o) THEN additional
    ELSE LET key == tgt.o[i][1]
         IN  IF ~HasKey(ref, key)
             THEN AdditionalPassKeepsIgnored(ref, tgt, cfg, path, i + 1,
                      Put(additional, JoinPath(path, key), tgt.o[i][2]))
             ELSE AdditionalPassKeepsIgnored(ref, tgt, cfg, path, i + 1, additional)

\* the loop "for key in target" from entry number i on
RECURSIVE AdditionalPass(_, _, _, _, _, _)
AdditionalPass(ref, tgt, cfg, path, i, additional) ==
    IF i > Len(tgt.o) THEN additional
    ELSE LET key == tgt.o[i][1]
         IN  IF ~HasKey(ref, key) /\ key \notin cfg.ignore_keys
             THEN AdditionalPass(ref, tgt, cfg, path, i + 1,
                      Put(additional, JoinPath(path, key), tgt.o[i][2]))
             ELSE AdditionalPass(ref, tgt, cfg, path, i + 1, additional)

\* {"reference": ref_val, "target": tgt_val}
Pair(ref_val, tgt_val) == [reference |-> ref_val, target |-> tgt_val]

\* the four update() calls after a nested call
Merge(acc, sub) ==
    [missing |-> Update(acc.missing, sub.missing),
     common |-> Update(acc.common, sub.common),
     differences |-> Update(acc.differences, sub.differences),
     additional |-> Update(acc.additional, sub.additional)]

RECURSIVE compare_json(_, _, _, _)
RECURSIVE ReferencePass(_, _, _, _, _, _)

\* the loop "for key in reference" from entry number i on
ReferencePass(ref, tgt, cfg, path, i, acc) ==
    IF i > Len(ref.o) THEN acc
    ELSE
      LET key == ref.o[i][1]
          ref_val == ref.o[i][2]
          current_path == JoinPath(path, key)
          ruled == current_path \in DOMAIN cfg.custom_rules
          Continue(acc2) == ReferencePass(ref, tgt, cfg, path, i + 1, acc2)
      IN
      IF key \in cfg.ignore_keys THEN Continue(acc)
      ELSE IF ruled /\ cfg.custom_rules[current_path] = "ignore" THEN Continue(acc)
      ELSE IF ruled /\ callable(cfg.custom_rules[current_path])
      THEN IF ~ApplyRule(cfg.custom_rules[current_path], ref_val, GetOrNone(tgt, key))
           THEN Continue([acc EXCEPT !.differences =
                    Put(@, current_path, Pair(ref_val, GetOrNone(tgt, key)))])
           ELSE Continue(acc)
      ELSE IF ~HasKey(tgt, key)
      THEN Continue([acc EXCEPT !.missing = Put(@, current_path, ref_val)])
      ELSE
        LET tgt_val == Get(tgt, key)
        IN
        IF IsDict(ref_val) /\ IsDict(tgt_val)
        THEN Continue(Merge(acc, compare_json(ref_val, tgt_val, cfg, current_path)))
        ELSE IF IsList(ref_val) /\ IsList(tgt_val)
        THEN IF compare_arrays(ref_val.a, tgt_val.a, cfg)
             THEN Continue([acc EXCEPT !.common = Put(@, current_path, ref_val)])
             ELSE Continue([acc EXCEPT !.differences =
                      Put(@, current_path, Pair(ref_val, tgt_val))])
        ELSE IF compare_values(ref_val, tgt_val, cfg)
        THEN Continue([acc EXCEPT !.common = Put(@, current_path, ref_val)])
        ELSE Continue([acc EXCEPT !.differences =
                 Put(@, current_path, Pair(ref_val, tgt_val))])

compare_json(ref, tgt, cfg, path) ==
    IF SchemaGateFails(ref, tgt, cfg, path)
    THEN SchemaErrorResult(SchemaGateMessage(ref, tgt, cfg))
    ELSE ReferencePass(ref, tgt, cfg, path, 1,
             [EmptyResult EXCEPT !.additional =
                  AdditionalPass(ref, tgt, cfg, path, 1, EmptyMap)])

\* compare_json raises TypeError: past the schema gate, "for key in target"
\* iterates the target, and a number, a bool and None cannot be iterated
RaisesTypeError(ref, tgt, cfg) ==
    /\ ~SchemaGateFails(ref, tgt, cfg, EmptyPath)
    /\ tgt.t \in {"num", "bool", "null"}

----------------------------------------------------------------------------
(* calculate_accuracy.                                                     *)

\* round(100 * num / den, 2) in hundredths: ties go to the even neighbour
Round2(num, den) ==
    LET scaled == 10000 * num
        q == scaled \div den
        r == scaled % den
    IN  IF 2 * r < den THEN q
        ELSE IF 2 * r > den THEN q + 1
        ELSE IF q % 2 = 0 THEN q ELSE q + 1

len(m) == Cardinality(DOMAIN m)

ZeroAccuracy ==
    [overall_accuracy |-> 0, key_presence_accuracy |-> 0, value_accuracy |-> 0]

\* value_accuracy taken over all keys instead of the keys present
calculate_accuracy_over_total(missing, common, differences, additional) ==
    LET total_keys == len(missing) + len(common) + len(differences) + len(additional)
        total_present_keys == len(common) + len(differences)
    IN  IF total_keys = 0 THEN ZeroAccuracy
        ELSE [overall_accuracy |-> Round2(len(common), total_keys),
              key_presence_accuracy |->
                  IF total_present_keys + len(missing) > 0
                  THEN Round2(total_present_keys, total_present_keys + len(missing))
                  ELSE 0,
              value_accuracy |-> Round2(len(common), total_keys)]

calculate_accuracy(missing, common, differences, additional) ==
    LET total_keys == len(missing) + len(common) + len(differences) + len(additional)
        total_present_keys == len(common) + len(differences)
    IN  IF total_keys = 0 THEN ZeroAccuracy
        ELSE [overall_accuracy |-> Round2(len(common), total_keys),
              key_presence_accuracy |->
                  IF total_present_keys + len(missing) > 0
                  THEN Round2(total_present_keys, total_present_keys + len(missing))
                  ELSE 0,
              value_accuracy |->
                  IF len(common) + len(differences) > 0
                  THEN Round2(len(common), len(common) + len(differences))
                  ELSE 0]

----------------------------------------------------------------------------
(* The inputs explored: documents, leaf values, configurations.            *)

\* key names: "a", "b" and the dotted key "a.b"
Keys == {<<"a">>, <<"b">>, <<"a", "b">>}

\* the values at the leaves of a generated document
DocLeaves == {NumV(1), NumV(2)}

\* ObjItems(n): the item lists of the dicts with n entries in all, nested
\* entries counted, over Keys and DocLeaves, in every insertion order
RECURSIVE ObjItems(_)
RECURSIVE ValuesOfSize(_)
ValuesOfSize(m) ==
    IF m = 0 THEN DocLeaves \cup {ObjV(<<>>)}
    ELSE {ObjV(items) : items \in ObjItems(m)}

ObjItems(n) ==
    IF n = 0 THEN {<<>>}
    ELSE UNION {
           UNION {
             {<< <<k, v>> >> \o rest :
                 rest \in {r \in ObjItems(n - 1 - m) :
                              \A i \in DOMAIN r : r[i][1] # k}} :
             k \in Keys, v \in ValuesOfSize(m)} :
           m \in 0 .. (n - 1)}

DocsOfSize(n) == {ObjV(items) : items \in ObjItems(n)}

\* pairs <<reference, target>> with at most `each` entries per document and
\* at most `both` entries together
PairsWithin(each, both) ==
    UNION {UNION {DocsOfSize(i) \X DocsOfSize(j) :
                    j \in {k \in 0 .. each : i + k <= both}} :
             i \in 0 .. each}

\* a document compared with itself
SamePairs(each) == UNION {{<<d, d>> : d \in DocsOfSize(i)} : i \in 0 .. each}

ComparePairs(each, both) ==
    PairsWithin(each, both) \cup (SamePairs(each) \ PairsWithin(each, both))

Rule(path, rule) == [p \in {path} |-> rule]

CompareConfigs ==
    {DefaultConfig,
     ComparisonConfig(FALSE, FALSE, 0, {<<"b">>}, NoRules, NoSchema),
     ComparisonConfig(FALSE, FALSE, 0, {}, NoRules, EmptySchema),
     ComparisonConfig(FALSE, FALSE, 0, {}, NoRules, RequiredSchema({<<"a">>}))}
    \cup {ComparisonConfig(FALSE, FALSE, 0, {}, Rule(<<"a", "b">>, r), NoSchema) :
             r \in {"ignore", "pred_true", "pred_false", "other"}}
    \cup {ComparisonConfig(FALSE, FALSE, 0, {}, Rule(<<"a">>, "ignore"), NoSchema)}

IgnoreConfigs ==
    {ComparisonConfig(FALSE, FALSE, 0, {<<"a">>}, NoRules, NoSchema),
     ComparisonConfig(FALSE, FALSE, 0, {<<"b">>}, NoRules, NoSchema),
     ComparisonConfig(FALSE, FALSE, 0, {<<"a">>}, Rule(<<"b">>, "pred_false"), NoSchema),
     ComparisonConfig(FALSE, FALSE, 0, {<<"b">>}, Rule(<<"a">>, "pred_false"), NoSchema),
     ComparisonConfig(FALSE, FALSE, 0, {<<"b">>}, NoRules, RequiredSchema({<<"a">>}))}

\* scalar and container values compared at one key
LeafValues ==
    {NullV, BoolV(TRUE), BoolV(FALSE), NumV(0), NumV(1), NumV(2),
     StrV(<<"x">>), StrV(<<"X">>), ArrV(<<NumV(1)>>), ObjV(<<>>)}

ArrayElems ==
    {NumV(0), NumV(1), NumV(2), BoolV(TRUE), StrV(<<"x">>), StrV(<<"X">>)}

ArraysUpTo(n) == UNION {[1 .. k -> ArrayElems] : k \in 0 .. n}

\* the reorderings of the indices 1 .. n
IndexPerms ==
    [n \in 0 .. (MaxLen + 1) |->
        {g \in [1 .. n -> 1 .. n] : \A i, j \in 1 .. n : g[i] = g[j] => i = j}]

\* the reorderings of a sequence
Perms(seq) == {[i \in DOMAIN seq |-> seq[f[i]]] : f \in IndexPerms[Len(seq)]}

\* the arrays a target holds against the reference array arr: its
\* reorderings, arr with its first item replaced, arr without its last item
TargetArraysFor(arr) ==
    Perms(arr)
        \cup (IF arr = <<>> THEN {}
              ELSE {[arr EXCEPT ![1] = e] : e \in ArrayElems}
                       \cup {SubSeq(arr, 1, Len(arr) - 1)})

\* pairs of values compared at one key, the arrays up to n items long
LeafPairs(n) ==
    (LeafValues \X LeafValues)
        \cup UNION {{<<ArrV(arr), ArrV(other)>> : other \in TargetArraysFor(arr)} :
                      arr \in ArraysUpTo(n)}

LeafConfigs ==
    {ComparisonConfig(io, ci, tol, {}, NoRules, NoSchema) :
        io \in BOOLEAN, ci \in BOOLEAN, tol \in 0 .. MaxTolerance}

\* the path segments "a.a. ... .a" with i segments: i distinct paths
PoolPath(i) == [j \in 1 .. i |-> "a"]

\* a classification map with n entries
SizedMap(n, v) == [p \in {PoolPath(i) : i \in 1 .. n} |-> v]

----------------------------------------------------------------------------
(* State machine.                                                          *)

NoRequest == [has_reference |-> FALSE, reference |-> <<>>, targets |-> <<>>]

\* the variables of the request handler, unused outside it
HandlerIdle ==
    /\ request = NoRequest
    /\ cursor = 0
    /\ results = <<>>
    /\ status = 0

InitCompare ==
    /\ \E pair \in ComparePairs(MaxDocNodes, MaxPairNodes) : reference = pair[1] /\ target = pair[2]
    /\ config \in CompareConfigs
    /\ pc = "start"
    /\ result = EmptyResult
    /\ swapped = EmptyResult
    /\ accuracy = ZeroAccuracy
    /\ HandlerIdle

InitIgnore ==
    /\ \E pair \in PairsWithin(MaxIgnoreNodes - 1, MaxIgnoreNodes) : reference = pair[1] /\ target = pair[2]
    /\ config \in IgnoreConfigs
    /\ pc = "start"
    /\ result = EmptyResult
    /\ swapped = EmptyResult
    /\ accuracy = ZeroAccuracy
    /\ HandlerIdle

\* missing, common, differences, additional = compare_json(reference, target, config)
CompareJson ==
    /\ pc = "start"
    /\ result' = compare_json(reference, target, config, EmptyPath)
    /\ pc' = "compared"
    /\ UNCHANGED <<reference, target, config, swapped, accuracy,
                   request, cursor, results, status>>

\* the same call with the two documents exchanged
CompareSwapped ==
    /\ pc = "compared"
    /\ swapped' = compare_json(target, reference, config, EmptyPath)
    /\ pc' = "swapped"
    /\ UNCHANGED <<reference, target, config, result, accuracy,
                   request, cursor, results, status>>

\* accuracy = calculate_accuracy(missing, common, differences, additional)
CalculateAccuracy ==
    /\ pc = "compared"
    /\ accuracy' = calculate_accuracy(result.missing, result.common,
                                      result.differences, result.additional)
    /\ pc' = "scored"
    /\ UNCHANGED <<reference, target, config, result, swapped,
                   request, cursor, results, status>>

\* one value at the key "a" of the reference and one at the key "a" of the target
InitLeaf ==
    /\ \E pair \in LeafPairs(MaxLen) :
          /\ reference = ObjV(<< <<(<<"a">>), pair[1]>> >>)
          /\ target = ObjV(<< <<(<<"a">>), pair[2]>> >>)
    /\ config \in LeafConfigs
    /\ pc = "start"
    /\ result = EmptyResult
    /\ swapped = EmptyResult
    /\ accuracy = ZeroAccuracy
    /\ HandlerIdle

\* four classification maps of every size up to MaxMapSize
InitAccuracy ==
    /\ \E m, c, d, a \in 0 .. MaxMapSize :
          result = [missing |-> SizedMap(m, NumV(1)),
                    common |-> SizedMap(c, NumV(1)),
                    differences |-> SizedMap(d, Pair(NumV(1), NumV(2))),
                    additional |-> SizedMap(a, NumV(1))]
    /\ reference = ObjV(<<>>)
    /\ target = ObjV(<<>>)
    /\ config = DefaultConfig
    /\ pc = "compared"
    /\ swapped = EmptyResult
    /\ accuracy = ZeroAccuracy
    /\ HandlerIdle

NextCompare == CompareJson \/ CompareSwapped

SpecCompare == InitCompare /\ [][NextCompare]_vars

NextIgnore == CompareJson

SpecIgnore == InitIgnore /\ [][NextIgnore]_vars

NextLeaf == CompareJson

SpecLeaf == InitLeaf /\ [][NextLeaf]_vars

NextAccuracy == CalculateAccuracy

SpecAccuracy == InitAccuracy /\ [][NextAccuracy]_vars

----------------------------------------------------------------------------
(* The /api/compare request handler.  An uploaded file is [filename,       *)
(* content, data]: content "json" parses to data, "invalid" is no JSON     *)
(* text and "undecodable" cannot be read in either encoding.               *)

File(filename, content, data) ==
    [filename |-> filename, content |-> content, data |-> data]

\* load_json: <<data, error>>, the error "" standing for None
load_json(file) ==
    IF file.content = "json" THEN <<file.data, "">>
    ELSE IF file.content = "invalid" THEN <<NullV, "Invalid JSON in file">>
    ELSE <<NullV, "Failed to decode file with multiple encodings">>

\* the entry appended for a target that failed to load
ErrorEntry(filename, error) ==
    [file |-> filename, error |-> error,
     missing |-> EmptyMap, common |-> EmptyMap, differences |-> EmptyMap,
     additional |-> EmptyMap, accuracy |-> ZeroAccuracy]

\* the entry appended for a target that was compared
ResultEntry(filename, r) ==
    [file |-> filename, error |-> "",
     missing |-> r.missing, common |-> r.common, differences |-> r.differences,
     additional |-> r.additional,
     accuracy |-> calculate_accuracy(r.missing, r.common, r.differences, r.additional)]

NoFile == File("", "json", NullV)

ReferenceFiles ==
    {File("", "json", ObjV(<<>>)),
     File("ref.json", "invalid", NullV),
     File("ref.json", "json", ObjV(<< <<(<<"a">>), NumV(1)>> >>))}

TargetFiles ==
    {File("", "json", ObjV(<<>>)),
     File("bad.json", "invalid", NullV),
     File("raw.bin", "undecodable", NullV),
     File("same.json", "json", ObjV(<< <<(<<"a">>), NumV(1)>> >>)),
     File("diff.json", "json", ObjV(<< <<(<<"a">>), NumV(2)>> >>)),
     File("other.json", "json", ObjV(<< <<(<<"b">>), NumV(1)>> >>)),
     File("five.json", "json", NumV(5))}

\* the requests with at most n target files
Requests(n) ==
    {[has_reference |-> FALSE, reference |-> NoFile, targets |-> ts] :
        ts \in UNION {[1 .. k -> TargetFiles] : k \in 0 .. 1}}
    \cup {[has_reference |-> TRUE, reference |-> r, targets |-> ts] :
             r \in ReferenceFiles,
             ts \in UNION {[1 .. k -> TargetFiles] : k \in 0 .. n}}

BatchConfigs ==
    {DefaultConfig,
     ComparisonConfig(FALSE, FALSE, 0, {}, NoRules, RequiredSchema({<<"a">>}))}

InitBatch ==
    /\ request \in Requests(MaxTargets)
    /\ config \in BatchConfigs
    /\ reference = NullV
    /\ target = NullV
    /\ pc = "start"
    /\ result = EmptyResult
    /\ swapped = EmptyResult
    /\ accuracy = ZeroAccuracy
    /\ cursor = 0
    /\ results = <<>>
    /\ status = 0

\* return jsonify({"error": ...}), 400
Reject ==
    /\ status' = 400
    /\ pc' = "done"
    /\ UNCHANGED <<reference, cursor, results>>

\* compare() up to the loop over the target files
ReceiveRequest ==
    /\ pc = "start"
    /\ IF ~request.has_reference THEN Reject
       ELSE IF request.reference.filename = "" THEN Reject
       ELSE IF load_json(request.reference)[2] # "" THEN Reject
       ELSE IF \A i \in DOMAIN request.targets : request.targets[i].filename = ""
       THEN Reject
       ELSE /\ reference' = load_json(request.reference)[1]
            /\ results' = <<>>
            /\ cursor' = 1
            /\ pc' = "targets"
            /\ UNCHANGED status
    /\ UNCHANGED <<target, config, result, swapped, accuracy, request>>

\* one iteration of "for target_file in target_files"
ProcessTarget ==
    /\ pc = "targets"
    /\ cursor <= Len(request.targets)
    /\ LET target_file == request.targets[cursor]
           loaded == load_json(target_file)
       IN  IF target_file.filename = ""
           THEN /\ cursor' = cursor + 1
                /\ UNCHANGED <<target, result, results, status, pc>>
           ELSE IF loaded[2] # ""
           THEN /\ results' = Append(results, ErrorEntry(target_file.filename, loaded[2]))
                /\ cursor' = cursor + 1
                /\ UNCHANGED <<target, result, status, pc>>
           ELSE IF RaisesTypeError(reference, loaded[1], config)
           THEN \* the exception leaves compare(): the request is answered 500
                /\ target' = loaded[1]
                /\ status' = 500
                /\ pc' = "done"
                /\ UNCHANGED <<result, results, cursor>>
           ELSE /\ target' = loaded[1]
                /\ result' = compare_json(reference, loaded[1], config, EmptyPath)
                /\ results' = Append(results, ResultEntry(target_file.filename, result'))
                /\ cursor' = cursor + 1
                /\ UNCHANGED <<status, pc>>
    /\ UNCHANGED <<reference, config, swapped, accuracy, request>>

\* return jsonify(results)
Respond ==
    /\ pc = "targets"
    /\ cursor > Len(request.targets)
    /\ status' = 200
    /\ pc' = "done"
    /\ UNCHANGED <<reference, target, config, result, swapped, accuracy,
                   request, cursor, results>>

NextBatch == ReceiveRequest \/ ProcessTarget \/ Respond

SpecBatch == InitBatch /\ [][NextBatch]_vars

----------------------------------------------------------------------------
(* Properties of compare_json.                                             *)

Compared == pc \in {"compared", "swapped", "scored"}

AllPaths(r) ==
    DOMAIN r.missing \cup DOMAIN r.common \cup DOMAIN r.differences
        \cup DOMAIN r.additional

\* C1: when the schema gate of the root call fails, differences is exactly
\* {"schema_error": message} and missing, common and additional are empty.
C1_SchemaErrorInDifferences ==
    (Compared /\ SchemaGateFails(reference, target, config, EmptyPath)) =>
        /\ DOMAIN result.differences = {<<"schema_error">>}
        /\ result.missing = EmptyMap
        /\ result.common = EmptyMap
        /\ result.additional = EmptyMap

\* C2: in the result of one call the key sets of missing, common and
\* differences are pairwise disjoint.
C2_PathsDisjoint ==
    Compared =>
        /\ DOMAIN result.missing \cap DOMAIN result.common = {}
        /\ DOMAIN result.missing \cap DOMAIN result.differences = {}
        /\ DOMAIN result.common \cap DOMAIN result.differences = {}

\* C3: with no ignored keys, no custom rules and no schema, the additional
\* map of compare_json(A, B) equals the missing map of compare_json(B, A).
C3_Duality ==
    (/\ pc = "swapped"
     /\ config.ignore_keys = {}
     /\ DOMAIN config.custom_rules = {}
     /\ config.schema = NoSchema) =>
        result.additional = swapped.missing

\* the leaves of a document: <<path, value>> for every path from the root
\* through nested dicts to a value that is no dict
RECURSIVE LeafEntries(_, _)
LeafEntries(d, path) ==
    UNION {IF IsDict(d.o[i][2])
           THEN LeafEntries(d.o[i][2], JoinPath(path, d.o[i][1]))
           ELSE {<<JoinPath(path, d.o[i][1]), d.o[i][2]>>} :
           i \in DOMAIN d.o}

\* C4: compare_json(X, X, default config) has missing, differences and
\* additional empty, and common holds every leaf path of X with X's value.
C4_Identity ==
    (Compared /\ reference = target /\ config = DefaultConfig) =>
        /\ result.missing = EmptyMap
        /\ result.differences = EmptyMap
        /\ result.additional = EmptyMap
        /\ \A leaf \in LeafEntries(reference, EmptyPath) :
              /\ leaf[1] \in DOMAIN result.common
              /\ result.common[leaf[1]] = leaf[2]

\* C5: a path mapped to the rule "ignore" is keyed in none of the four maps.
C5_IgnoreRuleRemovesPath ==
    Compared =>
        \A p \in DOMAIN config.custom_rules :
            config.custom_rules[p] = "ignore" => p \notin AllPaths(result)

\* the entries of a document that lie under no ignored key: <<path, value>>
\* for every key reached from the root through keys outside `ignored`
RECURSIVE KeptEntries(_, _, _)
KeptEntries(d, path, ignored) ==
    UNION {IF d.o[i][1] \in ignored THEN {}
           ELSE {<<JoinPath(path, d.o[i][1]), d.o[i][2]>>} \cup
                (IF IsDict(d.o[i][2])
                 THEN KeptEntries(d.o[i][2], JoinPath(path, d.o[i][1]), ignored)
                 ELSE {}) :
           i \in DOMAIN d.o}

----------------------------------------------------------------------------
(* Properties of compare_values and compare_arrays.                        *)

RefLeaf == Get(reference, <<"a">>)
TgtLeaf == Get(target, <<"a">>)
BothLists == IsList(RefLeaf) /\ IsList(TgtLeaf)

\* the verdict of compare_arrays is the same however either array is listed
OrderIndependent ==
    LET verdict == compare_arrays(RefLeaf.a, TgtLeaf.a, config)
    IN  /\ \A p \in Perms(TgtLeaf.a) : compare_arrays(RefLeaf.a, p, config) = verdict
        /\ \A p \in Perms(RefLeaf.a) : compare_arrays(p, TgtLeaf.a, config) = verdict

\* a reordered target array is judged equal and recorded under common
PermutationIsCommon ==
    (TgtLeaf.a \in Perms(RefLeaf.a)) =>
        /\ compare_arrays(RefLeaf.a, TgtLeaf.a, config)
        /\ <<"a">> \in DOMAIN result.common
        /\ <<"a">> \notin DOMAIN result.differences

\* C7 as stated: with ignore_order, for any numeric_tolerance, a reordered
\* target array is recorded under common and the verdict does not depend on
\* the order of either array.
C7_AnyTolerance ==
    (pc = "compared" /\ BothLists /\ config.ignore_order) =>
        PermutationIsCommon /\ OrderIndependent

\* C7 amended: the same with numeric_tolerance = 0.
C7_ZeroTolerance ==
    (pc = "compared" /\ BothLists /\ config.ignore_order
        /\ config.numeric_tolerance = 0) =>
        PermutationIsCommon /\ OrderIndependent

\* a reordered array of three items, two of them equal only without case
C7_Witness ==
    /\ pc = "compared"
    /\ config.ignore_order /\ config.case_insensitive
    /\ config.numeric_tolerance = 0
    /\ RefLeaf = ArrV(<<NumV(1), StrV(<<"x">>), NumV(2)>>)
    /\ TgtLeaf = ArrV(<<NumV(2), NumV(1), StrV(<<"x">>)>>)
    /\ result.common = Put(EmptyMap, <<"a">>, RefLeaf)
    /\ result.differences = EmptyMap

\* C10: a JSON Number and a value that is no Number are never equivalent,
\* and the pair is recorded under differences.
C10_NumberNeverEqualsNonNumber ==
    (/\ pc = "compared"
     /\ \/ RefLeaf.t = "num" /\ TgtLeaf.t # "num"
        \/ RefLeaf.t # "num" /\ TgtLeaf.t = "num") =>
        /\ ~compare_values(RefLeaf, TgtLeaf, config)
        /\ <<"a">> \in DOMAIN result.differences
        /\ <<"a">> \notin DOMAIN result.common

----------------------------------------------------------------------------
(* Properties of calculate_accuracy.                                       *)

\* h hundredths is a value of 100 * num / den rounded to two decimals
IsRounded(h, num, den) == 2 * Abs(h * den - 10000 * num) <= den

\* C8: with total = 0 the three metrics are 0; otherwise each is its ratio
\* in percent rounded to two decimals, or 0 when its denominator is 0; every
\* metric lies in [0, 100].
C8_AccuracyArithmetic ==
    pc = "scored" =>
        LET m == len(result.missing)
            c == len(result.common)
            d == len(result.differences)
            a == len(result.additional)
        IN  /\ (m + c + d + a = 0) => accuracy = ZeroAccuracy
            /\ (m + c + d + a > 0) =>
                  /\ IsRounded(accuracy.overall_accuracy, c, m + c + d + a)
                  /\ IF c + d + m > 0
                     THEN IsRounded(accuracy.key_presence_accuracy, c + d, c + d + m)
                     ELSE accuracy.key_presence_accuracy = 0
                  /\ IF c + d > 0
                     THEN IsRounded(accuracy.value_accuracy, c, c + d)
                     ELSE accuracy.value_accuracy = 0
            /\ accuracy.overall_accuracy \in 0 .. 10000
            /\ accuracy.key_presence_accuracy \in 0 .. 10000
            /\ accuracy.value_accuracy \in 0 .. 10000

\* |missing| = 1, |common| = 2, |differences| = 1, |additional| = 0 gives
\* 50.00, 75.00 and 66.67
C8_Witness ==
    /\ pc = "scored"
    /\ len(result.missing) = 1 /\ len(result.common) = 2
    /\ len(result.differences) = 1 /\ len(result.additional) = 0
    /\ accuracy = [overall_accuracy |-> 5000, key_presence_accuracy |-> 7500,
                   value_accuracy |-> 6667]

----------------------------------------------------------------------------
(* Properties of the request handler.                                      *)

\* the target files with a non-empty filename, in upload order
NamedTargets == SelectSeq(request.targets, LAMBDA f : f.filename # "")

ReferenceLoads ==
    /\ request.has_reference
    /\ request.reference.filename # ""
    /\ load_json(request.reference)[2] = ""

\* C9: once the reference has loaded, a request with named targets is
\* answered with one entry per named target, in upload order, whatever the
\* targets hold; a reference that fails to load is answered with an error.
C9_PerTargetIsolation ==
    pc = "done" =>
        /\ (ReferenceLoads /\ NamedTargets # <<>>) =>
              /\ status = 200
              /\ Len(results) = Len(NamedTargets)
              /\ \A i \in DOMAIN results : results[i].file = NamedTargets[i].filename
        /\ ~ReferenceLoads => (status = 400 /\ results = <<>>)

====
